---- MODULE Spec2Model ----
(***************************************************************************)
(* Model of the JSON-schema editor of cch137/json-schema-editor.           *)
(*                                                                         *)
(* The repository holds three editors of the same document:                *)
(*   "path"  src/app/[uuid]/SchemaProperties.tsx:290-1963, which edits the  *)
(*           node addressed by the dotted string currentPath;              *)
(*   "tree"  src/app/[uuid]/page.tsx:1-1615, the recursive PropertyEditor   *)
(*           below SchemaEditor, whose nested callbacks bubble updates up; *)
(*   "flat"  src/app/[uuid]/page.tsx:1617-1970 (and its copy               *)
(*           SchemaProperties.tsx:1965-2373), which edits root properties. *)
(* The variable `variant' says which editor is running.                    *)
(*                                                                         *)
(* A JavaScript object is an ordered sequence of <<key, value>> pairs with *)
(* pairwise distinct keys, in the order Object.keys would list them.       *)
(* Documents are kept in the form JSON.stringify prints: a key assigned    *)
(* `undefined' is dropped by JSON.stringify and by                         *)
(* JSON.parse(JSON.stringify(..)), so assigning undefined is modelled as   *)
(* deleting the key.  None of the modelled names is an integer-like key    *)
(* ("0", "1", ..), which JavaScript would list before the string keys.     *)
(***************************************************************************)
EXTENDS Integers, Sequences, FiniteSets, TLC

VARIABLES variant, schema, currentPath, pathHistory, last,
          lastSavedSchema, saving, request

vars == <<variant, schema, currentPath, pathHistory, last,
          lastSavedSchema, saving, request>>

\* what the edit handlers never set: the snapshot of the last save, the
\* saving flag and the request in flight
session == <<lastSavedSchema, saving, request>>

(***************************************************************************)
(* Bounds of the model.                                                    *)
(***************************************************************************)
\* largest size a document may grow to: the number of its nodes (root
\* included) plus the number of their optional fields
MaxSize == 4

\* the kinds the modelled user picks in a type selector
KindChoices == {"boolean", "object", "array"}

\* longest required list a node may grow to
MaxRequired == 2

\* the texts the modelled user leaves in a Display Title input: a title,
\* or nothing after clearing the input
TitleInputs == {"T", ""}

\* the names the modelled user types into a property-name input
RenameInputs == {"b", "a.b"}
TreeRenameInputs == {"b"}

(***************************************************************************)
(* JavaScript objects.                                                     *)
(***************************************************************************)
Has(o, k) == \E i \in 1..Len(o) : o[i][1] = k

Idx(o, k) == CHOOSE i \in 1..Len(o) : o[i][1] = k

Get(o, k) == o[Idx(o, k)][2]

\* o[k] = v : an existing key keeps its position, a new key goes last
Put(o, k, v) ==
  IF Has(o, k) THEN [o EXCEPT ![Idx(o, k)] = <<k, v>>] ELSE Append(o, <<k, v>>)

\* delete o[k]
Del(o, k) == SelectSeq(o, LAMBDA e : e[1] /= k)

\* Object.keys(o)
Keys(o) == [i \in 1..Len(o) |-> o[i][1]]

KeySet(o) == {o[i][1] : i \in 1..Len(o)}

\* array.includes(x) / array.indexOf(x) >= 0
Includes(arr, x) == \E i \in 1..Len(arr) : arr[i] = x

\* array.filter(item => item !== x)
FilterOut(arr, x) == SelectSeq(arr, LAMBDA e : e /= x)

\* array.map(key => key === a ? b : key)
MapRename(arr, a, b) == [i \in 1..Len(arr) |-> IF arr[i] = a THEN b ELSE arr[i]]

\* An optional argument: <<v>> is the value v, <<>> is undefined.
Undefined == <<>>

Def(v) == <<v>>

\* {...o, ...updates}, updates being a sequence of <<key, optional value>>;
\* a key spread with the value undefined does not reach the JSON form
RECURSIVE Spread(_, _)
Spread(o, updates) ==
  IF updates = <<>> THEN o
  ELSE LET u == Head(updates) IN
       Spread(IF u[2] = Undefined THEN Del(o, u[1]) ELSE Put(o, u[1], u[2][1]),
              Tail(updates))

(***************************************************************************)
(* Strings.                                                                *)
(***************************************************************************)
Digits == {"0", "1", "2", "3", "4", "5", "6", "7", "8", "9"}

\* !isNaN(Number(part)) for the strings of the model: Number("") is 0 and a
\* string of digits is its value; every other modelled string gives NaN
IsNumeric(part) == \A i \in 1..Len(part) : SubSeq(part, i, i) \in Digits

\* path.split(".")
RECURSIVE SplitFrom(_, _, _)
SplitFrom(s, i, acc) ==
  IF i > Len(s) THEN <<acc>>
  ELSE IF SubSeq(s, i, i) = "." THEN <<acc>> \o SplitFrom(s, i + 1, "")
  ELSE SplitFrom(s, i + 1, acc \o SubSeq(s, i, i))

Split(s) == SplitFrom(s, 1, "")

\* `newProperty${n}` and `property${n}`
NewPropertyName(n) == "newProperty" \o ToString(n)

PropertyName(n) == "property" \o ToString(n)

(***************************************************************************)
(* Schema nodes.                                                           *)
(***************************************************************************)
TYPE_ALLOWED_PROPERTIES ==
  [string  |-> {"title", "description", "default", "enum", "minLength",
                "maxLength", "pattern", "format"},
   number  |-> {"title", "description", "default", "minimum", "maximum",
                "exclusiveMinimum", "exclusiveMaximum", "multipleOf"},
   integer |-> {"title", "description", "default", "minimum", "maximum",
                "exclusiveMinimum", "exclusiveMaximum", "multipleOf"},
   boolean |-> {"title", "description", "default"},
   object  |-> {"title", "description", "properties", "required",
                "additionalProperties"},
   array   |-> {"title", "description", "items", "minItems", "maxItems",
                "uniqueItems"},
   null    |-> {"title", "description"}]

\* node.type, "" when the node has none
TypeOf(n) == IF Has(n, "type") THEN Get(n, "type") ELSE ""

\* node.properties || {}
PropsOf(n) == IF Has(n, "properties") THEN Get(n, "properties") ELSE <<>>

\* node.required || []
RequiredOf(n) == IF Has(n, "required") THEN Get(n, "required") ELSE <<>>

\* A location is a sequence of steps from the root: <<"p", name>> descends
\* into properties[name], <<"i">> descends into items.
PStep(name) == <<"p", name>>

IStep == <<"i">>

RECURSIVE GetAt(_, _)
GetAt(n, loc) ==
  IF loc = <<>> THEN n
  ELSE IF Head(loc)[1] = "p"
       THEN GetAt(Get(Get(n, "properties"), Head(loc)[2]), Tail(loc))
       ELSE GetAt(Get(n, "items"), Tail(loc))

RECURSIVE SetAt(_, _, _)
SetAt(n, loc, new) ==
  IF loc = <<>> THEN new
  ELSE IF Head(loc)[1] = "p"
       THEN LET ps == Get(n, "properties") IN
            Put(n, "properties",
                Put(ps, Head(loc)[2], SetAt(Get(ps, Head(loc)[2]), Tail(loc), new)))
       ELSE Put(n, "items", SetAt(Get(n, "items"), Tail(loc), new))

\* the locations of all nodes below (and including) n
RECURSIVE Locs(_)
Locs(n) ==
  {<<>>}
  \cup (IF Has(n, "properties")
        THEN UNION {{<<PStep(k)>> \o l : l \in Locs(Get(Get(n, "properties"), k))}
                    : k \in KeySet(Get(n, "properties"))}
        ELSE {})
  \cup (IF Has(n, "items")
        THEN {<<IStep>> \o l : l \in Locs(Get(n, "items"))}
        ELSE {})

NodeCount(n) == Cardinality(Locs(n))

\* the optional fields of a node that the size of a document counts
CountedFields == {"title", "description", "minLength", "enum", "required"}

\* the number of nodes plus the number of their counted fields
RECURSIVE Size(_)
Size(n) ==
  LET SizeOfProps[j \in 0..Len(PropsOf(n))] ==
        IF j = 0 THEN 0 ELSE SizeOfProps[j - 1] + Size(PropsOf(n)[j][2])
  IN  1 + Cardinality(KeySet(n) \cap CountedFields)
        + SizeOfProps[Len(PropsOf(n))]
        + (IF Has(n, "items") THEN Size(Get(n, "items")) ELSE 0)

\* !s.trim() : the string is empty or consists of white space only
IsBlank(s) == \A i \in 1..Len(s) : SubSeq(s, i, i) = " "

\* the node {type: "string"}
StringNode == <<<<"type", "string">>>>

(***************************************************************************)
(* The path editor (SchemaProperties.tsx:1135-1963).                       *)
(* Each operation deep-copies the document and then edits either the root  *)
(* (empty currentPath) or the nodes its walk over currentPath.split(".")   *)
(* stops at.  The root branch, the last-segment branch and the items       *)
(* branch of an operation hold the same statements, applied to newSchema,  *)
(* to current.properties[part] and to current.items; the definitions       *)
(* below with the suffix Node are those statements applied to a node.      *)
(***************************************************************************)
addPropertyNode(n) ==
  LET n1   == IF ~Has(n, "properties") THEN Put(n, "properties", <<>>) ELSE n
      ps   == Get(n1, "properties")
      name == NewPropertyName(Len(Keys(ps)) + 1)
  IN  Put(n1, "properties", Put(ps, name, StringNode))

removePropertyNode(n, key) ==
  LET n1 == IF Has(n, "properties") /\ Has(Get(n, "properties"), key)
            THEN Put(n, "properties", Del(Get(n, "properties"), key))
            ELSE n
  IN  IF Has(n1, "required")
      THEN Put(n1, "required", FilterOut(Get(n1, "required"), key))
      ELSE n1

cleanupPropertiesForType(propObj, newType) ==
  LET allowedProps == TYPE_ALLOWED_PROPERTIES[newType]
      kept == SelectSeq(propObj, LAMBDA e : e[1] \in allowedProps \/ e[1] = "type")
      o1   == IF newType = "object" /\ ~Has(kept, "properties")
              THEN Put(kept, "properties", <<>>) ELSE kept
  IN  IF newType = "array" /\ ~Has(o1, "items")
      THEN Put(o1, "items", StringNode) ELSE o1

\* value is optional: Undefined deletes the field
updatePropertyNode(n, key, field, value0) ==
  LET value == IF field = "title" /\ value0 = Def("") THEN Undefined ELSE value0
  IN  IF Has(n, "properties") /\ Has(Get(n, "properties"), key)
      THEN LET ps   == Get(n, "properties")
               prop == Get(ps, key)
               new  == IF value = Undefined THEN Del(prop, field)
                       ELSE Put(IF field = "type"
                                THEN cleanupPropertiesForType(prop, value[1])
                                ELSE prop,
                                field, value[1])
           IN  Put(n, "properties", Put(ps, key, new))
      ELSE n

\* Object.entries(properties).forEach(...) filling newProperties
RECURSIVE RenameEntries(_, _, _, _)
RenameEntries(entries, oldKey, newKey, newProperties) ==
  IF entries = <<>> THEN newProperties
  ELSE LET e == Head(entries) IN
       RenameEntries(Tail(entries), oldKey, newKey,
                     Put(newProperties, IF e[1] = oldKey THEN newKey ELSE e[1], e[2]))

renamePropertyNode(n, oldKey, newKey) ==
  IF Has(n, "properties") /\ Has(Get(n, "properties"), oldKey)
  THEN LET n1 == Put(n, "properties",
                     RenameEntries(Get(n, "properties"), oldKey, newKey, <<>>))
       IN  IF Has(n1, "required")
           THEN Put(n1, "required", MapRename(Get(n1, "required"), oldKey, newKey))
           ELSE n1
  ELSE n

\* required.splice(required.indexOf(key), 1)
SpliceFirst(arr, key) ==
  LET i == CHOOSE j \in 1..Len(arr) :
             arr[j] = key /\ \A m \in 1..(j - 1) : arr[m] /= key
  IN  SubSeq(arr, 1, i - 1) \o SubSeq(arr, i + 1, Len(arr))

toggleRequiredNode(n, key) ==
  LET n1  == IF ~Has(n, "required") THEN Put(n, "required", <<>>) ELSE n
      req == Get(n1, "required")
  IN  IF Includes(req, key)
      THEN Put(n1, "required", SpliceFirst(req, key))
      ELSE Put(n1, "required", Append(req, key))

\* an edit request: what the statements of an operation do to a node
ApplyNode(n, op) ==
  CASE op.op = "addProperty"    -> addPropertyNode(n)
    [] op.op = "removeProperty" -> removePropertyNode(n, op.key)
    [] op.op = "updateProperty" -> updatePropertyNode(n, op.key, op.field, op.value)
    [] op.op = "renameProperty" -> renamePropertyNode(n, op.key, op.newKey)
    [] op.op = "toggleRequired" -> toggleRequiredNode(n, op.key)

\* The loop `for (i = 0; i < parts.length; i++)' of the five operations:
\* cur is the location `current' points at.  A segment found in
\* current.properties is edited when it is the last one and descended into
\* otherwise; a numeric segment on a node with items edits current.items
\* and leaves current where it is; any other segment is skipped.
RECURSIVE WalkParts(_, _, _, _, _)
WalkParts(doc, parts, i, cur, op) ==
  IF i > Len(parts) THEN doc
  ELSE LET current == GetAt(doc, cur)
           part    == parts[i]
       IN  IF Has(current, "properties") /\ Has(Get(current, "properties"), part)
           THEN IF i = Len(parts)
                THEN LET t == cur \o <<PStep(part)>> IN
                     WalkParts(SetAt(doc, t, ApplyNode(GetAt(doc, t), op)),
                               parts, i + 1, cur, op)
                ELSE WalkParts(doc, parts, i + 1, cur \o <<PStep(part)>>, op)
           ELSE IF Has(current, "items") /\ IsNumeric(part)
                THEN LET t == cur \o <<IStep>> IN
                     WalkParts(SetAt(doc, t, ApplyNode(GetAt(doc, t), op)),
                               parts, i + 1, cur, op)
                ELSE WalkParts(doc, parts, i + 1, cur, op)

\* JSON.parse(JSON.stringify(x)): the parser fills a fresh object key by key
RECURSIVE JsonClone(_)
JsonClone(n) ==
  LET CloneValue(k, v) ==
        IF k = "properties"
        THEN LET RebuildProps[j \in 0..Len(v)] ==
                   IF j = 0 THEN <<>>
                   ELSE Put(RebuildProps[j - 1], v[j][1], JsonClone(v[j][2]))
             IN  RebuildProps[Len(v)]
        ELSE IF k = "items" THEN JsonClone(v)
        ELSE v
      Rebuild[j \in 0..Len(n)] ==
        IF j = 0 THEN <<>>
        ELSE Put(Rebuild[j - 1], n[j][1], CloneValue(n[j][1], n[j][2]))
  IN  Rebuild[Len(n)]

\* the body of an operation's setSchema(prevSchema => ...)
EditAtPath(prevSchema, path, op) ==
  LET newSchema == JsonClone(prevSchema) IN
  IF path = "" THEN ApplyNode(newSchema, op)
  ELSE WalkParts(newSchema, Split(path), 1, <<>>, op)

addProperty(prevSchema, path) ==
  EditAtPath(prevSchema, path, [op |-> "addProperty"])

removeProperty(prevSchema, path, key) ==
  EditAtPath(prevSchema, path, [op |-> "removeProperty", key |-> key])

updateProperty(prevSchema, path, key, field, value) ==
  EditAtPath(prevSchema, path,
             [op |-> "updateProperty", key |-> key, field |-> field, value |-> value])

renameProperty(prevSchema, path, oldKey, newKey) ==
  IF oldKey = newKey \/ IsBlank(newKey) THEN prevSchema
  ELSE EditAtPath(prevSchema, path,
                  [op |-> "renameProperty", key |-> oldKey, newKey |-> newKey])

toggleRequired(prevSchema, path, key) ==
  EditAtPath(prevSchema, path, [op |-> "toggleRequired", key |-> key])

\* description || undefined, assigned to node.description
SetDescription(n, description) ==
  IF description = "" THEN Del(n, "description") ELSE Put(n, "description", description)

\* the loop of updateSchemaDescription over all segments but the last
RECURSIVE DescendParts(_, _, _, _)
DescendParts(doc, parts, i, cur) ==
  IF i > Len(parts) - 1 THEN cur
  ELSE LET current == GetAt(doc, cur)
           part    == parts[i]
       IN  IF Has(current, "properties") /\ Has(Get(current, "properties"), part)
           THEN DescendParts(doc, parts, i + 1, cur \o <<PStep(part)>>)
           ELSE IF Has(current, "items") /\ IsNumeric(part)
                THEN DescendParts(doc, parts, i + 1, cur \o <<IStep>>)
                ELSE DescendParts(doc, parts, i + 1, cur)

updateSchemaDescription(prevSchema, path, description) ==
  LET newSchema == JsonClone(prevSchema) IN
  IF path = "" THEN SetDescription(newSchema, description)
  ELSE LET parts    == Split(path)
           cur      == DescendParts(newSchema, parts, 1, <<>>)
           current  == GetAt(newSchema, cur)
           lastPart == parts[Len(parts)]
       IN  IF Has(current, "properties") /\ Has(Get(current, "properties"), lastPart)
           THEN LET t == cur \o <<PStep(lastPart)>> IN
                SetAt(newSchema, t, SetDescription(GetAt(newSchema, t), description))
           ELSE IF Has(current, "items") /\ IsNumeric(lastPart)
                THEN LET t == cur \o <<IStep>> IN
                     SetAt(newSchema, t, SetDescription(GetAt(newSchema, t), description))
                ELSE newSchema

\* getCurrentSchema: the location of the node the path resolves to;
\* ok = FALSE is the result null
RECURSIVE ResolveParts(_, _, _, _)
ResolveParts(doc, parts, i, cur) ==
  IF i > Len(parts) THEN [ok |-> TRUE, loc |-> cur]
  ELSE LET current == GetAt(doc, cur)
           part    == parts[i]
       IN  IF Has(current, "properties") /\ Has(Get(current, "properties"), part)
           THEN ResolveParts(doc, parts, i + 1, cur \o <<PStep(part)>>)
           ELSE IF Has(current, "items") /\ IsNumeric(part)
                THEN ResolveParts(doc, parts, i + 1, cur \o <<IStep>>)
                ELSE [ok |-> FALSE, loc |-> <<>>]

\* a resolution that gives up after the first segment
resolveFirst(doc, path) ==
  IF path = "" THEN [ok |-> TRUE, loc |-> <<>>]
  ELSE ResolveParts(doc, <<Split(path)[1]>>, 1, <<>>)

getCurrentSchema(doc, path) ==
  IF path = "" THEN [ok |-> TRUE, loc |-> <<>>]
  ELSE ResolveParts(doc, Split(path), 1, <<>>)

\* the function that always adds an entry
navigateAppend(history, path, label) ==
  Append(history, [path |-> path, label |-> label])

\* navigateToPath
navigateToPath(history, path, label) ==
  IF \E i \in 1..Len(history) : history[i].path = path
  THEN LET existingIndex == CHOOSE i \in 1..Len(history) :
                              /\ history[i].path = path
                              /\ \A j \in 1..(i - 1) : history[j].path /= path
       IN  SubSeq(history, 1, existingIndex)
  ELSE Append(history, [path |-> path, label |-> label])

(***************************************************************************)
(* State.                                                                  *)
(***************************************************************************)
Variants == {"path", "tree", "flat"}

\* the document handleCreateSchema stores for a new schema (app/page.tsx)
initialSchema == <<<<"type", "object">>, <<"properties", <<>>>>>>

\* `last' records the latest user action: its name, the location loc of the
\* node in whose editor the user acted (ok = FALSE when the path editor's
\* focus did not resolve), the property key it was about and its argument
NoAction == [op |-> "load", loc |-> <<>>, ok |-> TRUE, key |-> "", arg |-> ""]

\* no request is in flight
NoRequest == [call |-> "none", json |-> <<>>]

\* the state once fetchData has stored the document the server holds
Init ==
  /\ variant \in Variants
  /\ schema = initialSchema
  /\ currentPath = ""
  /\ pathHistory = <<[path |-> "", label |-> "Root"]>>
  /\ last = NoAction
  /\ lastSavedSchema = IF variant = "flat" THEN initialSchema
                       ELSE JsonClone(initialSchema)
  /\ saving = FALSE
  /\ request = NoRequest

Bounded(doc) ==
  /\ Size(doc) <= MaxSize
  /\ \A l \in Locs(doc) : Len(RequiredOf(GetAt(doc, l))) <= MaxRequired

(***************************************************************************)
(* User actions of the path editor.  The controls a user can reach are     *)
(* those the page renders for currentSchema = getCurrentSchema().          *)
(***************************************************************************)
currentSchema == getCurrentSchema(schema, currentPath)

\* sortedProperties: Object.entries(currentSchema.properties)
sortedProperties ==
  IF currentSchema.ok /\ Has(GetAt(schema, currentSchema.loc), "properties")
  THEN Get(GetAt(schema, currentSchema.loc), "properties")
  ELSE <<>>

Did(op, key, arg) ==
  last' = [op |-> op, loc |-> currentSchema.loc, ok |-> currentSchema.ok,
           key |-> key, arg |-> arg]

PathAddProperty ==
  /\ variant = "path"
  /\ schema' = addProperty(schema, currentPath)
  /\ Bounded(schema')
  /\ Did("addProperty", "", "")
  /\ UNCHANGED <<variant, currentPath, pathHistory, session>>

PathRemoveProperty ==
  /\ variant = "path"
  /\ \E key \in KeySet(sortedProperties) :
       /\ schema' = removeProperty(schema, currentPath, key)
       /\ Did("removeProperty", key, "")
  /\ UNCHANGED <<variant, currentPath, pathHistory, session>>

\* PropertyItem.handleKeyDown / handleBlur commit the typed name tempKey
PathRenameProperty ==
  /\ variant = "path"
  /\ \E key \in KeySet(sortedProperties), tempKey \in RenameInputs :
       /\ ~IsBlank(tempKey) /\ tempKey /= key
       /\ schema' = renameProperty(schema, currentPath, key, tempKey)
       /\ Bounded(schema')
       /\ Did("renameProperty", key, tempKey)
  /\ UNCHANGED <<variant, currentPath, pathHistory, session>>

PathToggleRequired ==
  /\ variant = "path"
  /\ \E key \in KeySet(sortedProperties) :
       /\ schema' = toggleRequired(schema, currentPath, key)
       /\ Bounded(schema')
       /\ Did("toggleRequired", key, "")
  /\ UNCHANGED <<variant, currentPath, pathHistory, session>>

\* the type Select of a property
PathChangeType ==
  /\ variant = "path"
  /\ \E key \in KeySet(sortedProperties), value \in KindChoices :
       /\ value /= TypeOf(Get(sortedProperties, key))
       /\ schema' = updateProperty(schema, currentPath, key, "type", Def(value))
       /\ Bounded(schema')
       /\ Did("changeType", key, value)
  /\ UNCHANGED <<variant, currentPath, pathHistory, session>>

\* the Display Title input of a property
PathUpdateTitle ==
  /\ variant = "path"
  /\ \E key \in KeySet(sortedProperties), value \in TitleInputs :
       /\ value /= (IF Has(Get(sortedProperties, key), "title")
                    THEN Get(Get(sortedProperties, key), "title") ELSE "")
       /\ schema' = updateProperty(schema, currentPath, key, "title", Def(value))
       /\ Bounded(schema')
       /\ Did("updateTitle", key, value)
  /\ UNCHANGED <<variant, currentPath, pathHistory, session>>

\* the Min Length input, rendered for string properties: 3 is typed in or
\* the input is cleared
PathUpdateMinLength ==
  /\ variant = "path"
  /\ \E key \in KeySet(sortedProperties), value \in {Def(3), Undefined} :
       /\ TypeOf(Get(sortedProperties, key)) = "string"
       /\ (value = Undefined) = Has(Get(sortedProperties, key), "minLength")
       /\ schema' = updateProperty(schema, currentPath, key, "minLength", value)
       /\ Bounded(schema')
       /\ Did("updateMinLength", key, "")
  /\ UNCHANGED <<variant, currentPath, pathHistory, session>>

\* the Items Type Select, rendered for array properties
PathSelectItemsType ==
  /\ variant = "path"
  /\ \E key \in KeySet(sortedProperties), value \in KindChoices :
       LET prop  == Get(sortedProperties, key)
           items == IF Has(prop, "items") THEN Get(prop, "items") ELSE <<>>
       IN  /\ TypeOf(prop) = "array"
           /\ value /= (IF Has(items, "type") THEN Get(items, "type") ELSE "string")
           /\ schema' = updateProperty(schema, currentPath, key, "items",
                                       Def(Put(items, "type", value)))
           /\ Bounded(schema')
           /\ Did("selectItemsType", key, value)
  /\ UNCHANGED <<variant, currentPath, pathHistory, session>>

\* the Schema Description input
PathUpdateDescription ==
  /\ variant = "path"
  /\ \E description \in {"D", ""} :
       /\ description /=
            (IF currentSchema.ok /\ Has(GetAt(schema, currentSchema.loc), "description")
             THEN Get(GetAt(schema, currentSchema.loc), "description") ELSE "")
       /\ schema' = updateSchemaDescription(schema, currentPath, description)
       /\ Bounded(schema')
       /\ Did("updateDescription", "", description)
  /\ UNCHANGED <<variant, currentPath, pathHistory, session>>

\* PropertyItem.handleNavigate: "Edit Object Properties" of an object
\* property, "Edit Array Items Schema" of an array whose items is an object
PathNavigate ==
  /\ variant = "path"
  /\ \E key \in KeySet(sortedProperties) :
       LET prop    == Get(sortedProperties, key)
           newPath == IF currentPath /= "" THEN currentPath \o "." \o key ELSE key
           label   == IF Has(prop, "title") /\ Get(prop, "title") /= ""
                      THEN Get(prop, "title") ELSE key
       IN  /\ \/ TypeOf(prop) = "object"
              \/ /\ TypeOf(prop) = "array"
                 /\ Has(prop, "items")
                 /\ TypeOf(Get(prop, "items")) = "object"
           /\ pathHistory' = navigateToPath(pathHistory, newPath, label)
           /\ currentPath' = newPath
           /\ Did("navigate", key, newPath)
  /\ UNCHANGED <<variant, schema, session>>

\* a breadcrumb tab: navigateToPath(value, "")
PathSelectTab ==
  /\ variant = "path"
  /\ \E i \in 1..Len(pathHistory) :
       /\ pathHistory[i].path /= currentPath
       /\ pathHistory' = navigateToPath(pathHistory, pathHistory[i].path, "")
       /\ currentPath' = pathHistory[i].path
       /\ Did("selectTab", "", pathHistory[i].path)
  /\ UNCHANGED <<variant, schema, session>>

(***************************************************************************)
(* The tree editor (page.tsx:191-1203).  SchemaEditor holds the handlers   *)
(* of the root properties; every PropertyEditor below it receives its node *)
(* and callbacks that rebuild the parent's fields from the rendered node   *)
(* and pass them to the parent's onUpdate.                                 *)
(***************************************************************************)
\* the smallest i >= 1 with `property${i}` not in properties
RECURSIVE FreePropertyName(_, _)
FreePropertyName(properties, i) ==
  IF Has(properties, PropertyName(i)) THEN FreePropertyName(properties, i + 1)
  ELSE PropertyName(i)

\* SchemaEditor.handleAddProperty
handleAddProperty(safeSchema) ==
  LET newSchema == JsonClone(safeSchema)
      n1 == IF ~Has(newSchema, "properties")
            THEN Put(newSchema, "properties", <<>>) ELSE newSchema
      ps == Get(n1, "properties")
  IN  Put(n1, "properties", Put(ps, FreePropertyName(ps, 1), StringNode))

\* SchemaEditor.handleRemoveProperty
handleRemoveProperty(safeSchema, key) ==
  LET newSchema == JsonClone(safeSchema) IN
  IF Has(newSchema, "properties") /\ Has(Get(newSchema, "properties"), key)
  THEN LET n1 == Put(newSchema, "properties", Del(Get(newSchema, "properties"), key))
       IN  IF Has(n1, "required")
           THEN LET required == FilterOut(Get(n1, "required"), key) IN
                IF Len(required) = 0 THEN Del(n1, "required")
                ELSE Put(n1, "required", required)
           ELSE n1
  ELSE newSchema

\* SchemaEditor.handleUpdateProperty
handleUpdateProperty(safeSchema, key, updates) ==
  LET newSchema == JsonClone(safeSchema) IN
  IF Has(newSchema, "properties") /\ Has(Get(newSchema, "properties"), key)
  THEN LET ps == Get(newSchema, "properties") IN
       Put(newSchema, "properties", Put(ps, key, Spread(Get(ps, key), updates)))
  ELSE newSchema

\* SchemaEditor.handleRenameProperty
handleRenameProperty(safeSchema, oldKey, newKey) ==
  LET newSchema == JsonClone(safeSchema) IN
  IF Has(newSchema, "properties") /\ Has(Get(newSchema, "properties"), oldKey)
  THEN LET n1 == Put(newSchema, "properties",
                     RenameEntries(Get(newSchema, "properties"), oldKey, newKey, <<>>))
       IN  IF Has(n1, "required")
           THEN Put(n1, "required", MapRename(Get(n1, "required"), oldKey, newKey))
           ELSE n1
  ELSE newSchema

\* SchemaEditor.handleToggleRequired
handleToggleRequired(safeSchema, key) ==
  LET newSchema == JsonClone(safeSchema)
      n1  == IF ~Has(newSchema, "required")
             THEN Put(newSchema, "required", <<>>) ELSE newSchema
      req == Get(n1, "required")
  IN  IF Includes(req, key)
      THEN LET spliced == SpliceFirst(req, key) IN
           IF Len(spliced) = 0 THEN Del(n1, "required")
           ELSE Put(n1, "required", spliced)
      ELSE Put(n1, "required", Append(req, key))

\* SchemaEditor.handleUpdateDescription
handleUpdateDescription(safeSchema, description) ==
  SetDescription(safeSchema, description)

\* The onUpdate callback of the PropertyEditor at loc: a root property calls
\* handleUpdateProperty, a nested property or an items definition merges
\* the updates into a copy of the parent's field and calls the parent's
\* onUpdate
RECURSIVE onUpdate(_, _, _)
onUpdate(safeSchema, loc, updates) ==
  LET parent == SubSeq(loc, 1, Len(loc) - 1)
      step   == loc[Len(loc)]
      node   == GetAt(safeSchema, parent)
  IN  IF Len(loc) = 1
      THEN handleUpdateProperty(safeSchema, step[2], updates)
      ELSE IF step[1] = "p"
           THEN LET newProperties ==
                      Put(Get(node, "properties"), step[2],
                          Spread(Get(Get(node, "properties"), step[2]), updates))
                IN  onUpdate(safeSchema, parent, <<<<"properties", Def(newProperties)>>>>)
           ELSE onUpdate(safeSchema, parent,
                         <<<<"items", Def(Spread(Get(node, "items"), updates))>>>>)

\* the onRemove callback of the property childKey of the node at loc
onRemove(safeSchema, loc, childKey) ==
  IF loc = <<>> THEN handleRemoveProperty(safeSchema, childKey)
  ELSE LET node == GetAt(safeSchema, loc)
           newProperties == Del(Get(node, "properties"), childKey)
       IN  onUpdate(safeSchema, loc,
                    <<<<"properties", IF Len(Keys(newProperties)) > 0
                                      THEN Def(newProperties) ELSE Undefined>>>>)

\* the onRename callback of the property childKey of the node at loc
onRename(safeSchema, loc, childKey, newKey) ==
  IF loc = <<>> THEN handleRenameProperty(safeSchema, childKey, newKey)
  ELSE LET node == GetAt(safeSchema, loc)
           ps   == Get(node, "properties")
           newProperties == Del(Put(ps, newKey, Get(ps, childKey)), childKey)
       IN  onUpdate(safeSchema, loc, <<<<"properties", Def(newProperties)>>>>)

\* the onToggleRequired callback of the property childKey of the node at loc
onToggleRequired(safeSchema, loc, childKey) ==
  IF loc = <<>> THEN handleToggleRequired(safeSchema, childKey)
  ELSE LET node == GetAt(safeSchema, loc)
           required == RequiredOf(node)
           newRequired == IF Includes(required, childKey)
                          THEN FilterOut(required, childKey)
                          ELSE Append(required, childKey)
       IN  onUpdate(safeSchema, loc,
                    <<<<"required", IF Len(newRequired) > 0
                                    THEN Def(newRequired) ELSE Undefined>>>>)

\* PropertyEditor.handleAddProperty of the node at loc
nodeHandleAddProperty(safeSchema, loc) ==
  LET node == GetAt(safeSchema, loc) IN
  IF TypeOf(node) = "object"
  THEN LET properties == PropsOf(node) IN
       onUpdate(safeSchema, loc,
                <<<<"properties",
                    Def(Put(properties, FreePropertyName(properties, 1), StringNode))>>>>)
  ELSE safeSchema

\* PropertyEditor.handleUpdateArrayItemsType
handleUpdateArrayItemsType(safeSchema, loc, type) ==
  LET items == IF type = "object"
               THEN <<<<"type", type>>, <<"properties", <<>>>>>>
               ELSE IF type = "array"
                    THEN <<<<"type", type>>, <<"items", StringNode>>>>
                    ELSE <<<<"type", type>>>>
  IN  onUpdate(safeSchema, loc, <<<<"items", Def(items)>>>>)

\* the updates the type Select of a PropertyEditor builds for its node
TypeSelectUpdates(node, newType) ==
  LET allowedProps == TYPE_ALLOWED_PROPERTIES[newType]
      dropped == SelectSeq(Keys(node),
                           LAMBDA key : /\ key /= "type" /\ key /= "title"
                                        /\ key /= "description"
                                        /\ key \notin allowedProps)
      u0 == <<<<"type", Def(newType)>>>>
            \o [i \in 1..Len(dropped) |-> <<dropped[i], Undefined>>]
      u1 == IF newType = "object" /\ ~Has(node, "properties")
            THEN u0 \o <<<<"properties", Def(<<>>)>>,
                         <<"additionalProperties", Def(FALSE)>>>>
            ELSE u0
  IN  IF newType = "array" THEN u1 \o <<<<"items", Undefined>>>> ELSE u1

(***************************************************************************)
(* User actions of the tree editor.  A PropertyEditor shows the controls   *)
(* of its children once it is expanded; expanding changes no document, so  *)
(* every node counts as reachable by the user.                             *)
(***************************************************************************)
TreeDid(op, loc, key, arg) ==
  last' = [op |-> op, loc |-> loc, ok |-> TRUE, key |-> key, arg |-> arg]

\* the locations of the nodes that have a PropertyEditor: all but the root
EditorLocs == Locs(schema) \ {<<>>}

\* the key of the property at loc, or "" for an items definition
KeyAt(loc) == IF loc[Len(loc)][1] = "p" THEN loc[Len(loc)][2] ELSE ""

ParentOf(loc) == SubSeq(loc, 1, Len(loc) - 1)

\* "Add Property" below the root properties
TreeAddRootProperty ==
  /\ variant = "tree"
  /\ schema' = handleAddProperty(schema)
  /\ Bounded(schema')
  /\ TreeDid("addProperty", <<>>, "", "")
  /\ UNCHANGED <<variant, currentPath, pathHistory, session>>

\* "Add Property" inside an object node
TreeAddProperty ==
  /\ variant = "tree"
  /\ \E loc \in EditorLocs :
       /\ TypeOf(GetAt(schema, loc)) = "object"
       /\ schema' = nodeHandleAddProperty(schema, loc)
       /\ Bounded(schema')
       /\ TreeDid("addProperty", loc, "", "")
  /\ UNCHANGED <<variant, currentPath, pathHistory, session>>

\* the remove button of a named property
TreeRemoveProperty ==
  /\ variant = "tree"
  /\ \E loc \in EditorLocs :
       /\ KeyAt(loc) /= ""
       /\ schema' = onRemove(schema, ParentOf(loc), KeyAt(loc))
       /\ TreeDid("removeProperty", ParentOf(loc), KeyAt(loc), "")
  /\ UNCHANGED <<variant, currentPath, pathHistory, session>>

\* PropertyEditor.handleKeyDown / handleBlur commit the typed name tempKey
TreeRenameProperty ==
  /\ variant = "tree"
  /\ \E loc \in EditorLocs, tempKey \in TreeRenameInputs :
       /\ KeyAt(loc) /= ""
       /\ ~IsBlank(tempKey) /\ tempKey /= KeyAt(loc)
       /\ schema' = onRename(schema, ParentOf(loc), KeyAt(loc), tempKey)
       /\ Bounded(schema')
       /\ TreeDid("renameProperty", ParentOf(loc), KeyAt(loc), tempKey)
  /\ UNCHANGED <<variant, currentPath, pathHistory, session>>

\* the Required checkbox of a named property
TreeToggleRequired ==
  /\ variant = "tree"
  /\ \E loc \in EditorLocs :
       /\ KeyAt(loc) /= ""
       /\ schema' = onToggleRequired(schema, ParentOf(loc), KeyAt(loc))
       /\ Bounded(schema')
       /\ TreeDid("toggleRequired", ParentOf(loc), KeyAt(loc), "")
  /\ UNCHANGED <<variant, currentPath, pathHistory, session>>

\* the type Select of a node
TreeChangeType ==
  /\ variant = "tree"
  /\ \E loc \in EditorLocs, newType \in KindChoices :
       /\ newType /= TypeOf(GetAt(schema, loc))
       /\ schema' = onUpdate(schema, loc, TypeSelectUpdates(GetAt(schema, loc), newType))
       /\ Bounded(schema')
       /\ TreeDid("changeType", ParentOf(loc), KeyAt(loc), newType)
  /\ UNCHANGED <<variant, currentPath, pathHistory, session>>

\* the buttons "Select a type for array items" of an array without items
TreeSelectItemsType ==
  /\ variant = "tree"
  /\ \E loc \in EditorLocs, type \in KindChoices \cup {"string"} :
       /\ TypeOf(GetAt(schema, loc)) = "array"
       /\ ~Has(GetAt(schema, loc), "items")
       /\ type \in {"string", "number", "boolean", "object", "array"}
       /\ schema' = handleUpdateArrayItemsType(schema, loc, type)
       /\ Bounded(schema')
       /\ TreeDid("selectItemsType", ParentOf(loc), KeyAt(loc), type)
  /\ UNCHANGED <<variant, currentPath, pathHistory, session>>

\* the Description input of a node
TreeUpdateDescription ==
  /\ variant = "tree"
  /\ \E loc \in EditorLocs, description \in {"D", ""} :
       /\ description /= (IF Has(GetAt(schema, loc), "description")
                          THEN Get(GetAt(schema, loc), "description") ELSE "")
       /\ schema' = onUpdate(schema, loc,
                             <<<<"description", IF description = "" THEN Undefined
                                                ELSE Def(description)>>>>)
       /\ Bounded(schema')
       /\ TreeDid("updateDescription", ParentOf(loc), KeyAt(loc), description)
  /\ UNCHANGED <<variant, currentPath, pathHistory, session>>

\* the Min Length input of a string node: 3 is typed in or the input is
\* cleared
TreeUpdateMinLength ==
  /\ variant = "tree"
  /\ \E loc \in EditorLocs, value \in {Def(3), Undefined} :
       /\ TypeOf(GetAt(schema, loc)) = "string"
       /\ (value = Undefined) = Has(GetAt(schema, loc), "minLength")
       /\ schema' = onUpdate(schema, loc, <<<<"minLength", value>>>>)
       /\ Bounded(schema')
       /\ TreeDid("updateMinLength", ParentOf(loc), KeyAt(loc), "")
  /\ UNCHANGED <<variant, currentPath, pathHistory, session>>

\* the Schema Description input of the root
TreeUpdateRootDescription ==
  /\ variant = "tree"
  /\ \E description \in {"D", ""} :
       /\ description /= (IF Has(schema, "description")
                          THEN Get(schema, "description") ELSE "")
       /\ schema' = handleUpdateDescription(schema, description)
       /\ Bounded(schema')
       /\ TreeDid("updateRootDescription", <<>>, "", description)
  /\ UNCHANGED <<variant, currentPath, pathHistory, session>>

NextTree ==
  \/ TreeAddRootProperty
  \/ TreeAddProperty
  \/ TreeRemoveProperty
  \/ TreeRenameProperty
  \/ TreeToggleRequired
  \/ TreeChangeType
  \/ TreeSelectItemsType
  \/ TreeUpdateDescription
  \/ TreeUpdateMinLength
  \/ TreeUpdateRootDescription

(***************************************************************************)
(* The flat editor (page.tsx:1655-1970 with the property list of           *)
(* SchemaProperties.tsx:1-289).  It edits the properties of the root only. *)
(***************************************************************************)
\* addProperty
flatAddProperty(prevSchema) ==
  LET properties == PropsOf(prevSchema) IN
  Put(prevSchema, "properties",
      Put(properties, NewPropertyName(Len(Keys(properties)) + 1),
          <<<<"type", "string">>, <<"title", "New Property">>>>))

\* removeProperty
flatRemoveProperty(prevSchema, key) ==
  LET newProperties == Del(PropsOf(prevSchema), key)
      newRequired   == IF Has(prevSchema, "required")
                       THEN FilterOut(Get(prevSchema, "required"), key) ELSE <<>>
  IN  Put(Put(prevSchema, "properties", newProperties), "required", newRequired)

\* updateProperty; value is optional
flatUpdateProperty(prevSchema, key, field, value) ==
  LET properties == PropsOf(prevSchema)
      prop == IF Has(properties, key) THEN Get(properties, key) ELSE <<>>
      new  == IF value = Undefined THEN Del(prop, field)
              ELSE Put(prop, field, value[1])
  IN  Put(prevSchema, "properties", Put(properties, key, new))

\* renameProperty
flatRenameProperty(prevSchema, oldKey, newKey) ==
  IF oldKey = newKey \/ IsBlank(newKey) THEN prevSchema
  ELSE LET newProperties == RenameEntries(PropsOf(prevSchema), oldKey, newKey, <<>>)
           newRequired   == IF Has(prevSchema, "required")
                            THEN MapRename(Get(prevSchema, "required"), oldKey, newKey)
                            ELSE <<>>
       IN  Put(Put(prevSchema, "properties", newProperties), "required", newRequired)

\* toggleRequired
flatToggleRequired(prevSchema, key) ==
  LET currentRequired == RequiredOf(prevSchema)
      newRequired == IF Includes(currentRequired, key)
                     THEN FilterOut(currentRequired, key)
                     ELSE Append(currentRequired, key)
  IN  Put(prevSchema, "required", newRequired)

FlatDid(op, key, arg) ==
  last' = [op |-> op, loc |-> <<>>, ok |-> TRUE, key |-> key, arg |-> arg]

\* "Add Property"
FlatAddProperty ==
  /\ variant = "flat"
  /\ schema' = flatAddProperty(schema)
  /\ Bounded(schema')
  /\ FlatDid("addProperty", "", "")
  /\ UNCHANGED <<variant, currentPath, pathHistory, session>>

\* the remove button of a listed property
FlatRemoveProperty ==
  /\ variant = "flat"
  /\ \E key \in KeySet(PropsOf(schema)) :
       /\ schema' = flatRemoveProperty(schema, key)
       /\ Bounded(schema')
       /\ FlatDid("removeProperty", key, "")
  /\ UNCHANGED <<variant, currentPath, pathHistory, session>>

\* PropertyItem.handleKeyDown / handleBlur commit the typed name tempKey
FlatRenameProperty ==
  /\ variant = "flat"
  /\ \E key \in KeySet(PropsOf(schema)), tempKey \in RenameInputs :
       /\ tempKey /= key /\ ~IsBlank(tempKey)
       /\ schema' = flatRenameProperty(schema, key, tempKey)
       /\ Bounded(schema')
       /\ FlatDid("renameProperty", key, tempKey)
  /\ UNCHANGED <<variant, currentPath, pathHistory, session>>

\* the Required checkbox of a listed property
FlatToggleRequired ==
  /\ variant = "flat"
  /\ \E key \in KeySet(PropsOf(schema)) :
       /\ schema' = flatToggleRequired(schema, key)
       /\ Bounded(schema')
       /\ FlatDid("toggleRequired", key, "")
  /\ UNCHANGED <<variant, currentPath, pathHistory, session>>

\* the Type Select of a listed property
FlatChangeType ==
  /\ variant = "flat"
  /\ \E key \in KeySet(PropsOf(schema)), value \in KindChoices \cup {"string"} :
       /\ value /= TypeOf(Get(PropsOf(schema), key))
       /\ schema' = flatUpdateProperty(schema, key, "type", Def(value))
       /\ FlatDid("changeType", key, value)
  /\ UNCHANGED <<variant, currentPath, pathHistory, session>>

\* the Display Title input of a listed property
FlatUpdateTitle ==
  /\ variant = "flat"
  /\ \E key \in KeySet(PropsOf(schema)), value \in TitleInputs :
       /\ schema' = flatUpdateProperty(schema, key, "title", Def(value))
       /\ schema' /= schema
       /\ FlatDid("updateTitle", key, value)
  /\ UNCHANGED <<variant, currentPath, pathHistory, session>>

\* the Enum Values input of a string property: the text "x" is typed in,
\* which value.split(",").map(trim) turns into ["x"], or the input is
\* cleared
FlatUpdateEnum ==
  /\ variant = "flat"
  /\ \E key \in KeySet(PropsOf(schema)), enumValues \in {Def(<<"x">>), Undefined} :
       /\ TypeOf(Get(PropsOf(schema), key)) = "string"
       /\ schema' = flatUpdateProperty(schema, key, "enum", enumValues)
       /\ schema' /= schema
       /\ Bounded(schema')
       /\ FlatDid("updateEnum", key, "")
  /\ UNCHANGED <<variant, currentPath, pathHistory, session>>

NextFlat ==
  \/ FlatAddProperty
  \/ FlatRemoveProperty
  \/ FlatRenameProperty
  \/ FlatToggleRequired
  \/ FlatChangeType
  \/ FlatUpdateTitle
  \/ FlatUpdateEnum

NextPath ==
  \/ PathAddProperty
  \/ PathRemoveProperty
  \/ PathRenameProperty
  \/ PathToggleRequired
  \/ PathChangeType
  \/ PathUpdateTitle
  \/ PathUpdateMinLength
  \/ PathSelectItemsType
  \/ PathUpdateDescription
  \/ PathNavigate
  \/ PathSelectTab

Next == NextPath \/ NextTree \/ NextFlat

Spec == Init /\ [][Next]_vars

(***************************************************************************)
(* Saving.  hasUnsavedChanges compares the JSON texts of the document and  *)
(* of the snapshot: lastSavedSchema in the path editor                     *)
(* (SchemaProperties.tsx:1152) and the tree editor (page.tsx:1224),        *)
(* schemaDetail.json in the flat editor (SchemaProperties.tsx:2039-2042).  *)
(* saveSchema is asynchronous: the click sends the document the page       *)
(* rendered, and the handlers' continuations run when the server answers;  *)
(* the edit controls stay enabled in between.                              *)
(***************************************************************************)
\* largest document of the sessions in which saving is explored
MaxSaveSize == 2

\* JSON.stringify of a string without characters to escape
Quote(str) == "\"" \o str \o "\""

\* JSON.stringify of a schema node: the members in the order of the keys,
\* separated by commas
RECURSIVE JsonStringify(_)
JsonStringify(n) ==
  LET Strings(v) ==
        LET Joined[i \in 0..Len(v)] ==
              IF i = 0 THEN ""
              ELSE (IF i = 1 THEN "" ELSE Joined[i - 1] \o ",") \o Quote(v[i])
        IN  "[" \o Joined[Len(v)] \o "]"
      Properties(v) ==
        LET Joined[i \in 0..Len(v)] ==
              IF i = 0 THEN ""
              ELSE (IF i = 1 THEN "" ELSE Joined[i - 1] \o ",")
                     \o Quote(v[i][1]) \o ":" \o JsonStringify(v[i][2])
        IN  "{" \o Joined[Len(v)] \o "}"
      Value(k, v) ==
        IF k = "properties" THEN Properties(v)
        ELSE IF k = "items" THEN JsonStringify(v)
        ELSE IF k \in {"required", "enum"} THEN Strings(v)
        ELSE IF k = "minLength" THEN ToString(v)
        ELSE IF k = "additionalProperties" THEN (IF v THEN "true" ELSE "false")
        ELSE Quote(v)
      Members[i \in 0..Len(n)] ==
        IF i = 0 THEN ""
        ELSE (IF i = 1 THEN "" ELSE Members[i - 1] \o ",")
               \o Quote(n[i][1]) \o ":" \o Value(n[i][1], n[i][2])
  IN  "{" \o Members[Len(n)] \o "}"

\* a comparison that looks at the amount of content only
sizeDiffers == Size(schema) /= Size(lastSavedSchema)

\* the state variable schema holding undefined instead of a document
undefinedSchema == <<<<"undefined", "undefined">>>>

\* if (!lastSavedSchema || !schema) return false; then the comparison of the
\* two JSON texts
hasUnsavedChanges ==
  /\ schema /= undefinedSchema
  /\ JsonStringify(schema) /= JsonStringify(lastSavedSchema)

SaveDid(op) ==
  last' = [op |-> op, loc |-> <<>>, ok |-> TRUE, key |-> "", arg |-> ""]

\* the Save button, disabled={saving || !hasUnsavedChanges}: saveSchema up
\* to its await of updateSchema
SaveSchema ==
  /\ ~saving
  /\ hasUnsavedChanges
  /\ saving' = TRUE
  /\ request' = [call |-> "updateSchema", json |-> schema]
  /\ SaveDid("saveSchema")
  /\ UNCHANGED <<variant, schema, currentPath, pathHistory, lastSavedSchema>>

\* updateSchema resolves.  The path and the flat editor store the document
\* they sent as the snapshot and reset saving; the tree editor goes on to
\* await fetchSchemaDetail, which will deliver what the server stored.
UpdateSchemaResolved ==
  /\ request.call = "updateSchema"
  /\ IF variant = "tree"
     THEN /\ request' = [call |-> "fetchSchemaDetail",
                         json |-> JsonClone(request.json)]
          /\ SaveDid("updated")
          /\ UNCHANGED <<lastSavedSchema, saving>>
     ELSE /\ lastSavedSchema' = IF variant = "flat" THEN request.json
                                ELSE JsonClone(request.json)
          /\ saving' = FALSE
          /\ request' = NoRequest
          /\ SaveDid("saved")
  /\ UNCHANGED <<variant, schema, currentPath, pathHistory>>

\* fetchSchemaDetail resolves in the tree editor's saveSchema
FetchSchemaDetailResolved ==
  /\ request.call = "fetchSchemaDetail"
  /\ schema' = request.json
  /\ lastSavedSchema' = JsonClone(request.json)
  /\ saving' = FALSE
  /\ request' = NoRequest
  /\ SaveDid("saved")
  /\ UNCHANGED <<variant, currentPath, pathHistory>>

\* a rejection handled without the finally block
RequestRejectedNoFinally ==
  /\ request.call /= "none"
  /\ request' = NoRequest
  /\ SaveDid("saveFailed")
  /\ UNCHANGED <<variant, schema, currentPath, pathHistory, lastSavedSchema,
                 saving>>

\* the awaited call rejects: catch shows a toast, finally resets saving
RequestRejected ==
  /\ request.call /= "none"
  /\ saving' = FALSE
  /\ request' = NoRequest
  /\ SaveDid("saveFailed")
  /\ UNCHANGED <<variant, schema, currentPath, pathHistory, lastSavedSchema>>

\* the size the document may reach in these sessions; a property of the
\* flat editor is created with a title, which makes it one larger
SaveSize == IF variant = "flat" THEN MaxSaveSize + 1 ELSE MaxSaveSize

\* an edit written into the object it was given, which the flat editor's
\* snapshot schemaDetail.json shares with the document after the load
SaveEditInPlace ==
  /\ variant = "flat"
  /\ schema' = flatAddProperty(schema)
  /\ Size(schema') <= SaveSize
  /\ lastSavedSchema' = schema'
  /\ FlatDid("addProperty", "", "")
  /\ UNCHANGED <<variant, currentPath, pathHistory, saving, request>>

\* an edit or a navigation of the running editor, in a small document
SaveEdit == Next /\ Size(schema') <= SaveSize

NextSave ==
  \/ SaveEdit
  \/ SaveSchema
  \/ UpdateSchemaResolved
  \/ FetchSchemaDetailResolved
  \/ RequestRejected

SpecSave == Init /\ [][NextSave]_vars

(***************************************************************************)
(* The flat editor of page.tsx (1655-1970) has no snapshot and no dirty    *)
(* flag: its Save button is disabled={saving}, and its saveSchema only     *)
(* sets and resets saving.  What it loaded stays in lastSavedSchema.       *)
(***************************************************************************)
FlatPageSaveSchema ==
  /\ variant = "flat"
  /\ ~saving
  /\ saving' = TRUE
  /\ request' = [call |-> "updateSchema", json |-> schema]
  /\ SaveDid("saveSchema")
  /\ UNCHANGED <<variant, schema, currentPath, pathHistory, lastSavedSchema>>

FlatPageSaved ==
  /\ variant = "flat"
  /\ request.call = "updateSchema"
  /\ saving' = FALSE
  /\ request' = NoRequest
  /\ SaveDid("savedPage")
  /\ UNCHANGED <<variant, schema, currentPath, pathHistory, lastSavedSchema>>

InitFlat == Init /\ variant = "flat"

NextPageSave ==
  \/ SaveEdit
  \/ FlatPageSaveSchema
  \/ FlatPageSaved
  \/ RequestRejected

SpecPageSave == InitFlat /\ [][NextPageSave]_vars

(***************************************************************************)
(* navigateToPath on its own: the function is applied to any path and      *)
(* label, whatever the document holds at that path.                        *)
(***************************************************************************)
NavPaths == {"", "a", "a.b", "b"}
NavLabels == {"", "A"}

NavigateTo ==
  /\ variant = "path"
  /\ \E path \in NavPaths, label \in NavLabels :
       /\ pathHistory' = navigateToPath(pathHistory, path, label)
       /\ currentPath' = path
       /\ last' = [op |-> "navigateToPath", loc |-> <<>>, ok |-> TRUE,
                   key |-> label, arg |-> path]
  /\ UNCHANGED <<variant, schema, session>>

InitNavigate == Init /\ variant = "path"

SpecNavigate == InitNavigate /\ [][NavigateTo]_vars

(***************************************************************************)
(* toggleRequired and removeProperty on their own: the callbacks are       *)
(* applied to any name, a property of the focus node or not, in the        *)
(* documents the editors produce.                                          *)
(***************************************************************************)
\* largest document of the sessions in which the callbacks are applied
MaxCallSize == 3

\* a name that rename can give to a property, and one no property ever has
CallKeys == {"b", "c"}

\* toggleRequired of the running editor, at its focus
toggleRequiredCall(key) ==
  CASE variant = "path" -> toggleRequired(schema, currentPath, key)
    [] variant = "tree" -> handleToggleRequired(schema, key)
    [] variant = "flat" -> flatToggleRequired(schema, key)

\* removeProperty of the running editor, at its focus, on document doc
removePropertyCall(doc, key) ==
  CASE variant = "path" -> removeProperty(doc, currentPath, key)
    [] variant = "tree" -> handleRemoveProperty(doc, key)
    [] variant = "flat" -> flatRemoveProperty(doc, key)

\* the node the callbacks of the running editor work on
CallFocus == IF variant = "path" THEN currentSchema ELSE [ok |-> TRUE, loc |-> <<>>]

CallDid(op, key) ==
  last' = [op |-> op, loc |-> CallFocus.loc, ok |-> CallFocus.ok,
           key |-> key, arg |-> ""]

CallToggleRequired ==
  /\ \E key \in CallKeys :
       /\ schema' = toggleRequiredCall(key)
       /\ Size(schema') <= MaxCallSize
       /\ CallDid("callToggleRequired", key)
  /\ UNCHANGED <<variant, currentPath, pathHistory, session>>

CallRemoveProperty ==
  /\ \E key \in CallKeys :
       /\ schema' = removePropertyCall(schema, key)
       /\ Size(schema') <= MaxCallSize
       /\ CallDid("callRemoveProperty", key)
  /\ UNCHANGED <<variant, currentPath, pathHistory, session>>

\* an edit or a navigation of the running editor, in a small document
CallEdit == Next /\ Size(schema') <= MaxCallSize

NextCalls ==
  \/ CallEdit
  \/ CallToggleRequired
  \/ CallRemoveProperty

SpecCalls == Init /\ [][NextCalls]_vars

(***************************************************************************)
(* Committing a property name: Enter or blur in the name input of a        *)
(* property, with whatever text the input holds.  PropertyItem and         *)
(* PropertyEditor test the text before they call the rename callback, and  *)
(* the callbacks of the path and the flat editor test it again.            *)
(***************************************************************************)
\* the texts left in a name input: nothing, a blank, a name
CommitInputs == {"", " ", "b"}

\* the rename callback of the running editor for the property propKey of
\* the node at loc, called without the test of the input's handlers
commitUnguarded(loc, propKey, tempKey) ==
  CASE variant = "path" -> renameProperty(schema, currentPath, propKey, tempKey)
    [] variant = "tree" -> onRename(schema, loc, propKey, tempKey)
    [] variant = "flat" -> flatRenameProperty(schema, propKey, tempKey)

\* handleKeyDown / handleBlur of the name input
commitRename(loc, propKey, tempKey) ==
  IF ~IsBlank(tempKey) /\ tempKey /= propKey
  THEN commitUnguarded(loc, propKey, tempKey)
  ELSE schema

\* the name inputs on the page: the node they belong to and the property
CommitTargets ==
  CASE variant = "path" ->
         {<<currentSchema.loc, key>> : key \in KeySet(sortedProperties)}
    [] variant = "tree" ->
         {<<ParentOf(l), KeyAt(l)>> : l \in {e \in EditorLocs : KeyAt(e) /= ""}}
    [] variant = "flat" ->
         {<<<<>>, key>> : key \in KeySet(PropsOf(schema))}

CommitRename ==
  /\ \E t \in CommitTargets, tempKey \in CommitInputs :
       /\ schema' = commitRename(t[1], t[2], tempKey)
       /\ Size(schema') <= MaxCallSize
       /\ last' = [op |-> "commitRename", loc |-> t[1], ok |-> TRUE,
                   key |-> t[2], arg |-> tempKey]
  /\ UNCHANGED <<variant, currentPath, pathHistory, session>>

\* the steps that build the documents whose name inputs are used: adding a
\* property, changing a kind, moving the focus
BuildOps == {"addProperty", "changeType", "navigate", "selectTab"}

BuildEdit == Next /\ last'.op \in BuildOps /\ Size(schema') <= MaxCallSize

NextRename ==
  \/ BuildEdit
  \/ CommitRename

SpecRename == Init /\ [][NextRename]_vars

(***************************************************************************)
(* getCurrentSchema on its own: the function is applied to any path, in    *)
(* the documents of the path editor.                                       *)
(***************************************************************************)
\* the root, names of properties, nested names, numeric and empty segments,
\* a name no property has
ResolvePaths ==
  {"", "b", "newProperty1", "newProperty1.0", "newProperty1.", "b.newProperty1",
   "a.b", "0", "c"}

\* the steps that build the documents
ResolveOps ==
  {"addProperty", "changeType", "renameProperty", "selectItemsType",
   "navigate", "selectTab"}

ResolveEdit == Next /\ last'.op \in ResolveOps /\ Size(schema') <= MaxCallSize

ResolvePath ==
  /\ \E path \in ResolvePaths :
       last' = [op |-> "resolve", loc |-> getCurrentSchema(schema, path).loc,
                ok |-> getCurrentSchema(schema, path).ok, key |-> "",
                arg |-> path]
  /\ UNCHANGED <<variant, schema, currentPath, pathHistory, session>>

NextResolve ==
  \/ ResolveEdit
  \/ ResolvePath

SpecResolve == InitNavigate /\ [][NextResolve]_vars

(***************************************************************************)
(* Two callbacks issued from one render, before React renders again.  The  *)
(* path and the flat editor pass setSchema a function of the previous      *)
(* document, so the second callback works on the result of the first; the  *)
(* tree editor's callbacks compute their document from the safeSchema of   *)
(* the render and pass it to setSchema as a value, so the value set last   *)
(* is the document.                                                        *)
(***************************************************************************)
\* largest document two callbacks in a row may leave
MaxBatchSize == 5

\* the pairs of callbacks: Add Property twice, Add Property and then the
\* Required checkbox of a listed property, and the other way round
BatchKinds == {"addAdd", "addToggle", "toggleAdd"}

\* Add Property of the running editor at its focus, on document doc
addPropertyCall(doc) ==
  CASE variant = "path" -> addProperty(doc, currentPath)
    [] variant = "tree" -> handleAddProperty(doc)
    [] variant = "flat" -> flatAddProperty(doc)

\* the Required checkbox of the running editor at its focus, on document doc
toggleRequiredOn(doc, key) ==
  CASE variant = "path" -> toggleRequired(doc, currentPath, key)
    [] variant = "tree" -> handleToggleRequired(doc, key)
    [] variant = "flat" -> flatToggleRequired(doc, key)

\* the document that callback number i of the pair returns for doc
batchCallback(kind, i, doc, key) ==
  IF (kind = "addAdd") \/ (kind = "addToggle" /\ i = 1) \/ (kind = "toggleAdd" /\ i = 2)
  THEN addPropertyCall(doc)
  ELSE toggleRequiredOn(doc, key)

\* the document after both setSchema calls
backToBack(kind, key) ==
  IF variant = "tree"
  THEN batchCallback(kind, 2, schema, key)
  ELSE batchCallback(kind, 2, batchCallback(kind, 1, schema, key), key)

\* the properties listed at the focus of the running editor
BatchKeys ==
  IF CallFocus.ok THEN KeySet(PropsOf(GetAt(schema, CallFocus.loc))) ELSE {}

BackToBack ==
  /\ CallFocus.ok
  /\ \E kind \in BatchKinds, key \in BatchKeys \cup {""} :
       /\ (key = "") = (kind = "addAdd")
       /\ schema' = backToBack(kind, key)
       /\ Size(schema') <= MaxBatchSize
       /\ last' = [op |-> "backToBack", loc |-> CallFocus.loc, ok |-> TRUE,
                   key |-> key, arg |-> kind]
  /\ UNCHANGED <<variant, currentPath, pathHistory, session>>

NextBatch ==
  \/ BuildEdit
  \/ BackToBack

SpecBatch == Init /\ [][NextBatch]_vars

(***************************************************************************)
(* Renaming the document: the Rename dialog of the path editor             *)
(* (SchemaProperties.tsx:1638-1657) and of the tree editor                 *)
(* (page.tsx:1271-1323); the flat editor has none.  The dialog is modal,   *)
(* so the document is not edited while the request is in flight.           *)
(***************************************************************************)
\* what the user has typed into the dialog's input
DocNames == {"T", " U", " "}

\* String.prototype.trim for spaces
Trim(str) ==
  IF IsBlank(str) THEN ""
  ELSE LET inked == {i \in 1..Len(str) : SubSeq(str, i, i) /= " "}
           lo    == CHOOSE i \in inked : \A j \in inked : i <= j
           hi    == CHOOSE i \in inked : \A j \in inked : j <= i
       IN  SubSeq(str, lo, hi)

\* the Save button of the dialog, disabled={!newSchemaName.trim()}: the
\* handler up to its await of renameSchema.  The tree editor has by then
\* copied the document, set the copy's title and read hasUnsavedChanges.
HandleRenameSchema ==
  /\ variant \in {"path", "tree"}
  /\ schema /= undefinedSchema
  /\ request.call = "none"
  /\ \E newSchemaName \in DocNames :
       /\ ~IsBlank(newSchemaName)
       /\ request' =
            IF variant = "tree"
            THEN [call  |-> "renameSchema",
                  json  |-> Put(JsonClone(schema), "title", Trim(newSchemaName)),
                  dirty |-> hasUnsavedChanges]
            ELSE [call |-> "renameSchema", json |-> <<>>, dirty |-> FALSE]
  /\ SaveDid("renameSchema")
  /\ UNCHANGED <<variant, schema, currentPath, pathHistory, lastSavedSchema,
                 saving>>

\* renameSchema resolves; api.ts returns true.  The path editor reads json
\* and name off that value, both undefined, calls setSchema(json), and
\* JSON.parse(JSON.stringify(undefined)) throws before setLastSavedSchema.
\* The tree editor stores its copy, and the copy's clone as the snapshot
\* when the document was not dirty at the click.
RenameSchemaResolved ==
  /\ request.call = "renameSchema"
  /\ IF variant = "tree"
     THEN /\ schema' = request.json
          /\ lastSavedSchema' = IF request.dirty THEN lastSavedSchema
                                ELSE JsonClone(request.json)
     ELSE /\ schema' = undefinedSchema
          /\ UNCHANGED lastSavedSchema
  /\ request' = NoRequest
  /\ SaveDid("renamed")
  /\ UNCHANGED <<variant, currentPath, pathHistory, saving>>

\* renameSchema rejects: the catch block shows a toast
RenameSchemaRejected ==
  /\ request.call = "renameSchema"
  /\ request' = NoRequest
  /\ SaveDid("renameFailed")
  /\ UNCHANGED <<variant, schema, currentPath, pathHistory, lastSavedSchema,
                 saving>>

\* an edit while no dialog is open; without a document the page shows
\* "Schema not found" and no editor
DocEdit == SaveEdit /\ schema /= undefinedSchema /\ request.call /= "renameSchema"

\* a save started and finished while no rename is in flight
DocSave ==
  \/ SaveSchema /\ request.call = "none"
  \/ UpdateSchemaResolved
  \/ FetchSchemaDetailResolved

InitDocRename == Init /\ variant \in {"path", "tree"}

NextDocRename ==
  \/ DocEdit
  \/ DocSave
  \/ HandleRenameSchema
  \/ RenameSchemaResolved
  \/ RenameSchemaRejected

SpecDocRename == InitDocRename /\ [][NextDocRename]_vars

(***************************************************************************)
(* Properties.  An action wrote into last' the editor node it acted in     *)
(* (loc), so a step's object before the action is GetAt(schema, last'.loc) *)
(* and after the action GetAt(schema', last'.loc).                         *)
(***************************************************************************)
\* the step is the operation op, done in an editor whose node resolved
Step(op) == last'.op = op /\ last'.ok /\ last'.loc \in Locs(schema')

Before == GetAt(schema, last'.loc)

After == GetAt(schema', last'.loc)

\* every name of the required list of n is a key of its properties
RequiredAreKeys(n) ==
  \A i \in 1..Len(RequiredOf(n)) : RequiredOf(n)[i] \in KeySet(PropsOf(n))

AllRequiredAreKeys(doc) == \A l \in Locs(doc) : RequiredAreKeys(GetAt(doc, l))

\* C1: addProperty, removeProperty and renameProperty, at the root or at a
\* nested object, keep every node's required list within the keys of that
\* node's properties.
C1_RequiredSubsetOfProperties ==
  [][(/\ last'.op \in {"addProperty", "removeProperty", "renameProperty"}
      /\ AllRequiredAreKeys(schema))
       => AllRequiredAreKeys(schema')]_vars

\* C2: renameProperty to a name no sibling has keeps every property of the
\* object at its position, relabels the slot of the old name with its value
\* unchanged, and replaces every entry of the required list that equals the
\* old name by the new one, at the root and at every nested object.
C2_RenameKeepsPositionAndRequired ==
  [][(Step("renameProperty") /\ last'.arg \notin KeySet(PropsOf(Before)))
       => /\ PropsOf(After) =
               [i \in 1..Len(PropsOf(Before)) |->
                  IF PropsOf(Before)[i][1] = last'.key
                  THEN <<last'.arg, PropsOf(Before)[i][2]>>
                  ELSE PropsOf(Before)[i]]
          /\ RequiredOf(After) = MapRename(RequiredOf(Before), last'.key, last'.arg)]_vars

\* the operations of the path editor that change the document
Mutations ==
  {"addProperty", "removeProperty", "renameProperty", "toggleRequired",
   "changeType", "updateTitle", "updateMinLength", "selectItemsType",
   "updateDescription"}

\* C3: while the focus path of the path editor is stale (a segment names no
\* property of the node reached so far, nor an items step), every mutation
\* leaves the document as it was.
C3_StaleFocusLeavesDocument ==
  [][(variant = "path" /\ ~currentSchema.ok /\ last'.op \in Mutations)
       => schema' = schema]_vars

\* the child the step was about, before and after it
ChildBefore == Get(PropsOf(Before), last'.key)

ChildAfter == Get(PropsOf(After), last'.key)

\* the fields a change to the kind object seeds when the node has no
\* properties
SeededFields == {"properties", "additionalProperties"}

\* field f of node n, as a sequence of at most one value
FieldOf(n, f) == IF Has(n, f) THEN <<Get(n, f)>> ELSE <<>>

\* C4: changing a property's kind to K yields a node of kind K with the
\* title and description of the original node, whose remaining fields are
\* exactly the original fields that are in the allowed set of K (leaving
\* aside the fields a change to the kind object seeds).
C4_KindChangeKeepsAllowedFields ==
  [][(Step("changeType") /\ last'.key /= "")
       => /\ TypeOf(ChildAfter) = last'.arg
          /\ FieldOf(ChildAfter, "title") = FieldOf(ChildBefore, "title")
          /\ FieldOf(ChildAfter, "description") = FieldOf(ChildBefore, "description")
          /\ \A f \in (KeySet(ChildBefore) \cup KeySet(ChildAfter))
                        \ ({"type"} \cup SeededFields) :
               FieldOf(ChildAfter, f) =
                 (IF f \in TYPE_ALLOWED_PROPERTIES[last'.arg]
                  THEN FieldOf(ChildBefore, f) ELSE <<>>)]_vars

\* n carries only fields legal for its kind, besides type
LegalFields(n) ==
  TypeOf(n) \in DOMAIN TYPE_ALLOWED_PROPERTIES
    => KeySet(n) \subseteq TYPE_ALLOWED_PROPERTIES[TypeOf(n)] \cup {"type"}

\* C5: every node of the document carries only fields that are legal for its
\* kind (plus kind, title and description).
C5_OnlyLegalFields ==
  \A l \in Locs(schema) : LegalFields(GetAt(schema, l))

\* the smallest positive integer n for which no sibling is called Name(n)
LeastFree(Name(_), properties) ==
  CHOOSE n \in 1..(Len(properties) + 1) :
    /\ Name(n) \notin KeySet(properties)
    /\ \A m \in 1..(n - 1) : Name(m) \in KeySet(properties)

FreshNames(properties) ==
  {NewPropertyName(LeastFree(NewPropertyName, properties)),
   PropertyName(LeastFree(PropertyName, properties))}

\* C6: addProperty on an object calls the new property newProperty{n} (or
\* property{n}) with n the smallest positive integer whose name no sibling
\* has, and the new node is {type: "string"}; on an object without
\* properties that is newProperty1 (or property1).
C6_AddPropertyFreshName ==
  [][(Step("addProperty") /\ TypeOf(Before) = "object")
       => \E name \in FreshNames(PropsOf(Before)) :
            /\ Has(PropsOf(After), name)
            /\ Get(PropsOf(After), name) = StringNode]_vars

\* C7: addProperty on an object increases the number of its properties by
\* exactly one and leaves the name, value and position of every property it
\* had unchanged.
C7_AddPropertyAddsOne ==
  [][(Step("addProperty") /\ TypeOf(Before) = "object")
       => /\ Len(PropsOf(After)) = Len(PropsOf(Before)) + 1
          /\ \A i \in 1..Len(PropsOf(Before)) :
               PropsOf(After)[i] = PropsOf(Before)[i]]_vars

\* the nodes of doc that are no objects and have a properties field
NonObjectsWithProperties(doc) ==
  {l \in Locs(doc) : /\ Has(GetAt(doc, l), "properties")
                     /\ TypeOf(GetAt(doc, l)) /= "object"}

\* the focus is an array whose items definition is an object
ArrayOfObjects(n) ==
  TypeOf(n) = "array" /\ Has(n, "items") /\ TypeOf(Get(n, "items")) = "object"

\* C8: addProperty changes the document only when its target is an object
\* (the focus node, or the items definition of a focused array of objects):
\* on a focus node of another kind the document stays as it was, and no
\* non-object node is ever given a properties field.
C8_AddPropertyOnlyOnObjects ==
  [][last'.op = "addProperty"
       => /\ (/\ last'.ok
              /\ TypeOf(Before) /= "object"
              /\ ~ArrayOfObjects(Before)) => schema' = schema
          /\ NonObjectsWithProperties(schema')
               \subseteq NonObjectsWithProperties(schema)]_vars

\* a required field, when present, is not the empty list
NoEmptyRequired(n) == Has(n, "required") => Len(Get(n, "required")) > 0

\* C9: toggleRequired flips the membership of the name in the required list
\* of the focus node and never leaves an empty list: the list becomes absent
\* instead, so that two toggles of a name take an absent list back to an
\* absent list.
C9_ToggleRequiredFlips ==
  [][Step("toggleRequired")
       => /\ Includes(RequiredOf(After), last'.key)
               = ~Includes(RequiredOf(Before), last'.key)
          /\ NoEmptyRequired(After)]_vars

\* C10: removeProperty deletes the child from properties and from the
\* required list, and a required list it empties is removed, at the root and
\* at every nested object.
C10_RemovePropertyCleansRequired ==
  [][Step("removeProperty")
       => /\ ~Has(PropsOf(After), last'.key)
          /\ ~Includes(RequiredOf(After), last'.key)
          /\ NoEmptyRequired(After)]_vars

\* C11: renameProperty onto the name of an existing sibling overwrites that
\* sibling: afterwards the new name holds the node that was stored under the
\* old name and the old name is no key any more, whatever the order of the
\* two properties.
C11_RenameOverwritesSibling ==
  [][(Step("renameProperty") /\ last'.arg \in KeySet(PropsOf(Before)))
       => /\ Has(PropsOf(After), last'.arg)
          /\ Get(PropsOf(After), last'.arg) = Get(PropsOf(Before), last'.key)
          /\ ~Has(PropsOf(After), last'.key)]_vars

\* the steps that are neither an edit of the document nor a navigation
SessionOps ==
  {"load", "saveSchema", "updated", "saved", "savedPage", "saveFailed"}
NavigationOps == {"navigate", "selectTab", "navigateToPath"}
EditStep == last'.op \notin (SessionOps \cup NavigationOps)

\* C12 as stated: the dirty flag is false right after a successful save, it
\* is true exactly when the document differs from the snapshot, and every
\* edit that changes the document makes it true.
C12_DirtyAfterSaveAndEdit ==
  /\ ~hasUnsavedChanges
  /\ [][/\ last'.op = "saved" => ~hasUnsavedChanges'
        /\ hasUnsavedChanges' <=> (schema' /= lastSavedSchema')
        /\ (EditStep /\ schema' /= schema) => hasUnsavedChanges']_vars

\* C12: the dirty flag is false after the load; after a successful save it
\* is false exactly when the document still is the one that was sent; it is
\* at every moment true exactly when the document differs (order of keys
\* included) from the snapshot; an edit that changes a clean document makes
\* it dirty.
C12_DirtyIffDiffersFromSnapshot ==
  /\ ~hasUnsavedChanges
  /\ [][/\ last'.op = "saved"
             => (hasUnsavedChanges' <=> (schema' /= request.json))
        /\ hasUnsavedChanges' <=> (schema' /= lastSavedSchema')
        /\ (EditStep /\ ~hasUnsavedChanges /\ schema' /= schema)
             => hasUnsavedChanges']_vars

\* a save has succeeded while the document had moved on from what was sent
C12_Witness ==
  /\ last.op = "saved"
  /\ hasUnsavedChanges
  /\ Len(PropsOf(lastSavedSchema)) /= Len(PropsOf(schema))

\* the steps that store a snapshot
SnapshotOps == {"saved"}

RECURSIVE Without(_, _)
Without(n, fs) ==
  IF n = <<>> THEN <<>>
  ELSE IF n[1][1] \in fs THEN Without(Tail(n), fs)
       ELSE <<n[1]>> \o Without(Tail(n), fs)

\* the operations on the properties of the focus node
PropertyOps ==
  {"addProperty", "removeProperty", "renameProperty", "toggleRequired",
   "changeType", "updateTitle", "updateMinLength", "updateEnum",
   "selectItemsType"}

\* the step changed nothing but the fields fs of the node at the focus
OnlyFocusFields(fs) ==
  /\ last'.loc \in Locs(schema')
  /\ schema' = SetAt(schema, last'.loc, After)
  /\ Without(After, fs) = Without(Before, fs)

\* the editors that edit at a focus: the path editor at currentPath, the
\* flat editor at the root
FocusEditors == {"path", "flat"}

\* C14, for a focus that resolves: updateDescription changes nothing but the
\* description of the focus node, which it removes when the text is empty;
\* the operations on properties change nothing but the properties and the
\* required list of the focus node.
C14_ResolvedFocusFrame ==
  [][(variant \in FocusEditors /\ last'.ok)
       => /\ last'.op = "updateDescription"
               => /\ OnlyFocusFields({"description"})
                  /\ last'.arg = "" => ~Has(After, "description")
          /\ last'.op \in PropertyOps
               => OnlyFocusFields({"properties", "required"})]_vars

\* C14: every edit at the focus path changes nothing outside the node at
\* that path (nothing at all when the path names no node), and within it
\* only the description (updateDescription) or the properties and the
\* required list (the operations on properties).
C14_EditsStayInFocusNode ==
  [][(variant \in FocusEditors /\ ~last'.ok /\ last'.op \in Mutations
        => schema' = schema)
     /\ ((variant \in FocusEditors /\ last'.ok)
           => /\ last'.op = "updateDescription"
                   => /\ OnlyFocusFields({"description"})
                      /\ last'.arg = "" => ~Has(After, "description")
              /\ last'.op \in PropertyOps
                   => OnlyFocusFields({"properties", "required"}))]_vars

\* the index of the first entry of history for path, 0 when there is none
IndexOfPath(history, path) ==
  IF \E i \in 1..Len(history) : history[i].path = path
  THEN CHOOSE i \in 1..Len(history) :
         /\ history[i].path = path
         /\ \A j \in 1..(i - 1) : history[j].path /= path
  ELSE 0

Crumb(path, label) == [path |-> path, label |-> label]

\* C15: navigate(path, label) makes path the focus; when the breadcrumb list
\* has an entry for path it is cut to end with that entry, label untouched,
\* and otherwise the entry {path, label} is appended; navigating to a, to
\* a.b and to a again leaves [Root, A].
C15_NavigateTruncatesOrAppends ==
  [][last'.op = "navigateToPath"
       => /\ currentPath' = last'.arg
          /\ IndexOfPath(pathHistory, last'.arg) > 0
               => /\ Len(pathHistory') = IndexOfPath(pathHistory, last'.arg)
                  /\ \A i \in 1..Len(pathHistory') : pathHistory'[i] = pathHistory[i]
                  /\ pathHistory'[Len(pathHistory')].path = last'.arg
          /\ IndexOfPath(pathHistory, last'.arg) = 0
               => /\ Len(pathHistory') = Len(pathHistory) + 1
                  /\ \A i \in 1..Len(pathHistory) : pathHistory'[i] = pathHistory[i]
                  /\ pathHistory'[Len(pathHistory')] = Crumb(last'.arg, last'.key)
          /\ (/\ pathHistory = <<Crumb("", "Root"), Crumb("a", "A"), Crumb("a.b", "")>>
              /\ last'.arg = "a")
               => pathHistory' = <<Crumb("", "Root"), Crumb("a", "A")>>]_vars

\* the list [Root, A] after a navigation to a that passed another label
C15_Witness ==
  /\ last.op = "navigateToPath"
  /\ last.arg = "a"
  /\ last.key = ""
  /\ currentPath = "a"
  /\ pathHistory = <<Crumb("", "Root"), Crumb("a", "A")>>

\* C16: changing the kind of a property to array leaves the node without an
\* items definition, whatever it had before.
C16_KindArrayHasNoItems ==
  [][(Step("changeType") /\ last'.key /= "" /\ last'.arg = "array")
       => ~Has(ChildAfter, "items")]_vars

\* C17: changing the kind of a property that has no properties to object
\* yields a node with properties = {} and additionalProperties = false.
C17_KindObjectSeedsProperties ==
  [][(/\ Step("changeType") /\ last'.key /= "" /\ last'.arg = "object"
      /\ ~Has(ChildBefore, "properties"))
       => /\ FieldOf(ChildAfter, "properties") = <<<<>>>>
          /\ FieldOf(ChildAfter, "additionalProperties") = <<FALSE>>]_vars

\* the field that the steps setting one field of a property are about
FieldOps == {"updateTitle", "updateMinLength", "updateEnum"}

FieldOfOp(op) ==
  CASE op = "updateTitle"     -> "title"
    [] op = "updateMinLength" -> "minLength"
    [] op = "updateEnum"      -> "enum"

\* C18, on an existing child: updateField(key, field, value) sets that field
\* and no other, an empty title counting as no title, and leaves the other
\* properties of the focus node as they were.
C18_UpdateFieldSetsOneField ==
  [][(last'.op \in FieldOps /\ last'.ok /\ last'.loc \in Locs(schema')
        /\ Has(PropsOf(Before), last'.key))
       => /\ Without(ChildAfter, {FieldOfOp(last'.op)})
               = Without(ChildBefore, {FieldOfOp(last'.op)})
          /\ PropsOf(After) = Put(PropsOf(Before), last'.key, ChildAfter)
          /\ last'.op = "updateTitle"
               => FieldOf(ChildAfter, "title")
                    = (IF last'.arg = "" THEN <<>> ELSE <<last'.arg>>)]_vars

\* the name of the step is no property of the node the callback works on
KeyIsNoProperty ==
  /\ last'.ok
  /\ last'.key \notin KeySet(PropsOf(GetAt(schema, last'.loc)))

\* C19: toggleRequired(key) for a key that is no property of the focus node
\* returns an equal document: no required list is created or extended.
C19_ToggleRequiredOfNoProperty ==
  [][(last'.op = "callToggleRequired" /\ KeyIsNoProperty)
       => schema' = schema]_vars

\* C20: removeProperty(name) for a name that is no property of the focus
\* node returns an equal document, so that removing a name a second time
\* changes nothing.
C20_RemovePropertyOfNoProperty ==
  [][(last'.op = "callRemoveProperty" /\ last'.ok)
       => /\ KeyIsNoProperty => schema' = schema
          /\ removePropertyCall(schema', last'.key) = schema']_vars

\* C21: committing a property name that is empty, blank or the name the
\* property has leaves the document and the dirty flag as they were, in
\* every editor and for root and nested properties alike.
C21_RejectedRenameChangesNothing ==
  [][(last'.op = "commitRename"
        /\ (IsBlank(last'.arg) \/ last'.arg = last'.key))
       => /\ schema' = schema
          /\ hasUnsavedChanges' = hasUnsavedChanges]_vars

\* a blank name was committed for a nested property of an edited document
C21_Witness ==
  /\ last.op = "commitRename"
  /\ last.arg = " "
  /\ last.loc /= <<>>
  /\ last.key \in KeySet(PropsOf(GetAt(schema, last.loc)))
  /\ hasUnsavedChanges

\* location loc of doc is reached by following parts: every segment is the
\* name of a property of the node reached so far, or a numeric segment that
\* is no such name and steps to the items of that node
Follows(doc, parts, loc) ==
  /\ Len(loc) = Len(parts)
  /\ loc \in Locs(doc)
  /\ \A i \in 1..Len(parts) :
       \/ loc[i] = PStep(parts[i])
       \/ /\ loc[i] = IStep
          /\ IsNumeric(parts[i])
          /\ parts[i] \notin KeySet(PropsOf(GetAt(doc, SubSeq(loc, 1, i - 1))))

C22_WitnessNull ==
  /\ last.op = "resolve"
  /\ ~last.ok
  /\ last.arg = "b.newProperty1"
  /\ Has(PropsOf(schema), "b")

\* C23: two operations issued back to back both take effect: after Add
\* Property twice the focus node has two more properties, and after Add
\* Property and toggleRequired(key), in either order, it has one more
\* property and the membership of key in its required list has flipped.
C23_BackToBackBothApply ==
  [][(last'.op = "backToBack" /\ last'.loc \in Locs(schema'))
       => /\ Len(PropsOf(After))
               = Len(PropsOf(Before)) + (IF last'.arg = "addAdd" THEN 2 ELSE 1)
          /\ last'.arg /= "addAdd"
               => (Includes(RequiredOf(After), last'.key)
                     = ~Includes(RequiredOf(Before), last'.key))]_vars

\* C24: a save is started only when the dirty flag is true and no save is
\* in flight, so that two saves never overlap.
C24_SaveOnlyWhenDirtyAndIdle ==
  [][last'.op = "saveSchema"
       => /\ hasUnsavedChanges
          /\ ~saving
          /\ request.call = "none"]_vars

\* C25: the breadcrumb list is never empty, starts with the root entry, has
\* pairwise distinct paths and ends with the entry of the focus path; after
\* the load it is the root entry alone and the focus is the root.
C25_BreadcrumbsWellFormed ==
  /\ Len(pathHistory) >= 1
  /\ pathHistory[1] = Crumb("", "Root")
  /\ \A i, j \in 1..Len(pathHistory) :
       pathHistory[i].path = pathHistory[j].path => i = j
  /\ pathHistory[Len(pathHistory)].path = currentPath
  /\ last.op = "load" => (pathHistory = <<Crumb("", "Root")>> /\ currentPath = "")

\* a breadcrumb jump has cut a list of three entries back to two
C25_Witness ==
  /\ last.op = "selectTab"
  /\ Len(pathHistory) = 2
  /\ currentPath /= ""

\* C26: after every navigation and every edit the focus path of the path
\* editor resolves to a node, and after a drill-down from focus node F into
\* its property k the focus node is F.properties[k], whatever the name k.
C26_FocusResolves ==
  [][variant = "path"
       => /\ getCurrentSchema(schema', currentPath').ok
          /\ (last'.op = "navigate" /\ last'.ok)
               => getCurrentSchema(schema', currentPath').loc
                    = last'.loc \o <<PStep(last'.key)>>]_vars

\* C27: edits made while a save is in flight are not lost: when the save
\* succeeds and the document is no longer the one that was sent, the
\* document stays as it is and the dirty flag is true.
C27_EditsDuringSaveKept ==
  [][(last'.op = "saved" /\ schema /= request.json)
       => /\ schema' = schema
          /\ hasUnsavedChanges']_vars

\* C28: when a save request fails, the document and the snapshot stay as
\* they were, the dirty flag keeps its value, and saving is false again, so
\* that a new save can be started when the document is dirty.
C28_FailedSaveChangesNothing ==
  [][last'.op = "saveFailed"
       => /\ schema' = schema
          /\ lastSavedSchema' = lastSavedSchema
          /\ hasUnsavedChanges' = hasUnsavedChanges
          /\ ~saving']_vars

\* a save has failed and left a dirty document
C28_Witness ==
  /\ last.op = "saveFailed"
  /\ hasUnsavedChanges
  /\ ~saving
  /\ schema /= initialSchema

\* a sequence without a repeated element
NoDuplicates(arr) ==
  \A i, j \in 1..Len(arr) : arr[i] = arr[j] => i = j

\* C29: after toggleRequired, removeProperty and renameProperty, including a
\* rename onto the name of a sibling when both properties are required, no
\* node's required list contains the same name twice.
C29_RequiredHasNoDuplicates ==
  [][(/\ last'.op \in {"toggleRequired", "removeProperty", "renameProperty"}
      /\ \A loc \in Locs(schema) : NoDuplicates(RequiredOf(GetAt(schema, loc))))
       => \A loc \in Locs(schema') :
            NoDuplicates(RequiredOf(GetAt(schema', loc)))]_vars

\* a rename onto a required sibling has left a name twice in required
C29_Counterexample ==
  /\ last.op = "renameProperty"
  /\ last.ok
  /\ \E loc \in Locs(schema) : ~NoDuplicates(RequiredOf(GetAt(schema, loc)))

\* C30: a document rename, whether it succeeds or fails, leaves the document
\* with everything but the root title as it was, and leaves the dirty flag
\* at its value.
C30_DocumentRenameKeepsTree ==
  [][last'.op \in {"renamed", "renameFailed"}
       => /\ schema' /= undefinedSchema
          /\ Without(schema', {"title"}) = Without(schema, {"title"})
          /\ hasUnsavedChanges' = hasUnsavedChanges]_vars

\* a successful rename in the path editor has left no document at all
C30_Counterexample ==
  /\ last.op = "renamed"
  /\ variant = "path"
  /\ schema = undefinedSchema
====
